---- MODULE Spec2Model ----
(***************************************************************************)
(* Host-side orchestration of colossalai/kernel/triton/ops.py:             *)
(*   self_attention_forward_without_fusion  (plain attention)              *)
(*   compute_attention_for_bloom            (biased / alibi attention)     *)
(*   self_attention_compute_using_triton    (packed-QKV attention)         *)
(*   softmax                                (standalone softmax)           *)
(* A tensor is its metadata: shape, dtype, the set of (flattened)          *)
(* positions a mask has excluded from it, and the operations applied to    *)
(* it.  A call is one atomic step from the idle state; its result records  *)
(* the raised error or the returned view, the events (allocations, kernel  *)
(* launches) in program order, and the softmax launch configuration.       *)
(***************************************************************************)
EXTENDS Integers, Sequences, FiniteSets, TLC

VARIABLES fn, args, result

vars == <<fn, args, result>>

(* ------------------------------ bounds -------------------------------- *)
MaxBatch == 2
MaxHeads == 2
MaxHeadDim == 2
MaxMaskPos == 2

(* ------------------------- program constants -------------------------- *)
ROW_THRESHOLD == 350000
WARP_THRESHOLD_HI == 4096
WARP_THRESHOLD_LO == 2048

(* --------------------------- host library ----------------------------- *)
RECURSIVE Prod(_)
Prod(s) == IF s = <<>> THEN 1 ELSE Head(s) * Prod(Tail(s))

RECURSIVE Pow2AtLeast(_, _)
Pow2AtLeast(p, n) == IF p >= n THEN p ELSE Pow2AtLeast(2 * p, n)

\* triton.next_power_of_2: smallest power of two >= n (0 for n = 0)
next_power_of_2(n) == IF n = 0 THEN 0 ELSE Pow2AtLeast(1, n)

\* triton.cdiv
cdiv(a, b) == (a + b - 1) \div b

Max(a, b) == IF a >= b THEN a ELSE b
Min(a, b) == IF a <= b THEN a ELSE b

RECURSIVE KnownProd(_)
KnownProd(t) == IF t = <<>> THEN 1
                ELSE (IF Head(t) = -1 THEN 1 ELSE Head(t)) * KnownProd(Tail(t))

\* torch.Tensor.view(*target) with one inferred (-1) axis: the new shape, or
\* <<>> when the element count does not fit (RuntimeError)
ViewShape(shape, target) ==
    LET numel == Prod(shape)
        known == KnownProd(target)
    IN IF known = 0 \/ numel % known # 0 THEN <<>>
       ELSE [i \in 1..Len(target) |->
                IF target[i] = -1 THEN numel \div known ELSE target[i]]

Tensor(shape, dtype) ==
    [shape |-> shape, dtype |-> dtype, excluded |-> {}, ops |-> <<>>]

NoTensor == Tensor(<<>>, "none")

NoMask == [present |-> FALSE, shape |-> <<>>, excluded |-> {}]

Mask(shape, S) == [present |-> TRUE, shape |-> shape, excluded |-> S]

To(t, dtype) == [t EXCEPT !.dtype = dtype]

Applied(t, op) == [t EXCEPT !.ops = Append(@, op)]

NoLaunch ==
    [kernel |-> "none", resolved |-> FALSE, n_rows |-> 0, n_cols |-> 0,
     BLOCK_SIZE |-> 0, num_warps |-> 0, BLOCK_M |-> 0, grid |-> 0,
     mask |-> FALSE]

EmptyResult ==
    [status |-> "none", msg |-> "", trace |-> <<>>, output |-> NoTensor,
     launch |-> NoLaunch, promoted |-> NoTensor, masked |-> NoTensor,
     softmax_input |-> NoTensor, softmax_output |-> NoTensor,
     handed |-> NoTensor, dropout |-> FALSE, path |-> "none"]

Raise(r, kind, msg) == [r EXCEPT !.status = kind, !.msg = msg]

Event(r, e) == [r EXCEPT !.trace = Append(@, e)]

(* ---------------------- softmax primitives ---------------------------- *)
\* softmax_kernel (softmax_kernel.py, not part of the sources): row softmax
\* over the last axis; positions the mask pointer excludes do not take part
\* in the row's max and sum.  The output buffer keeps its own shape.
SoftmaxKernel(out, input, mask_ptr) ==
    [shape |-> out.shape, dtype |-> out.dtype,
     excluded |-> input.excluded \cup
                  (IF mask_ptr.present THEN mask_ptr.excluded ELSE {}),
     ops |-> Append(input.ops, "softmax_kernel")]

\* torch.nn.functional.softmax(x, dim=-1, dtype=dt): no mask argument
TorchSoftmax(input, dtype) ==
    [shape |-> input.shape, dtype |-> dtype, excluded |-> input.excluded,
     ops |-> Append(input.ops, "F.softmax")]

(* ------------------ softmax launch configuration ---------------------- *)
\* block_size / num_warps at the plain-attention launch site
PlainSoftmaxConfig(n_cols) ==
    LET block_size == Max(next_power_of_2(n_cols), 2)
        num_warps == IF block_size >= WARP_THRESHOLD_HI THEN 16
                     ELSE IF block_size >= WARP_THRESHOLD_LO THEN 8
                     ELSE 4
    IN [BLOCK_SIZE |-> block_size, num_warps |-> num_warps]

SoftmaxLaunch(kernel, n_rows, n_cols, cfg, mask_ptr) ==
    [kernel |-> kernel, resolved |-> TRUE, n_rows |-> n_rows,
     n_cols |-> n_cols, BLOCK_SIZE |-> cfg.BLOCK_SIZE,
     num_warps |-> cfg.num_warps, BLOCK_M |-> 0, grid |-> n_rows,
     mask |-> mask_ptr.present]

(* ------------- self_attention_forward_without_fusion ------------------ *)
\* the assertions of the function head: "" when all pass
PlainPreconditions_NoKShapeCheck(q, k, v) ==
    IF Len(q.shape) # 4 THEN "the shape of q val must be 4"
    ELSE IF q.shape # v.shape
         THEN "the shape of q and the shape of v must be equal"
    ELSE IF q.shape[Len(q.shape)] # k.shape[Len(k.shape)]
         THEN "the last dimension of q and k must be equal"
    ELSE ""

PlainPreconditions(q, k, v) ==
    IF Len(q.shape) # 4 THEN "the shape of q val must be 4"
    ELSE IF q.shape # k.shape
         THEN "the shape of q and the shape of k must be equal"
    ELSE IF q.shape # v.shape
         THEN "the shape of q and the shape of v must be equal"
    ELSE IF q.shape[Len(q.shape)] # k.shape[Len(k.shape)]
         THEN "the last dimension of q and k must be equal"
    ELSE ""

\* small-row-count path: fused kernel, mask pointer passed through
PlainSmallPath(softmax_output, score_output, input_mask) ==
    SoftmaxKernel(softmax_output, score_output, input_mask)

\* large-row-count path: host-library softmax, reshaped to the score shape
PlainLargePath(score_output, score_output_shape, input_mask) ==
    LET s == TorchSoftmax(score_output, score_output.dtype)
    IN [s EXCEPT !.shape = ViewShape(s.shape, score_output_shape)]

\* the first GEMM's output buffer, shape (batches, H, M, N)
PlainScore(q, k) ==
    Applied(Tensor(<<q.shape[1], q.shape[3], q.shape[2], k.shape[2]>>,
                   q.dtype), "qkv_gemm_4d_kernel")

Flatten2D(t) ==
    [t EXCEPT !.shape = ViewShape(t.shape, <<-1, t.shape[Len(t.shape)]>>)]

PlainAttention(q, k, v, input_mask) ==
    LET pre == PlainPreconditions(q, k, v)
    IN IF pre # "" THEN Raise(EmptyResult, "AssertionError", pre)
       ELSE
       LET d_model == q.shape[4] * q.shape[3]
           score4 == PlainScore(q, k)
           softmax_buf == Tensor(score4.shape, score4.dtype)
           score_output == Flatten2D(score4)
           n_rows == score_output.shape[1]
           n_cols == score_output.shape[2]
           small == n_rows <= ROW_THRESHOLD
           softmax_output ==
               IF small THEN PlainSmallPath(softmax_buf, score_output, input_mask)
               ELSE PlainLargePath(score_output, score4.shape, input_mask)
           N == v.shape[4]
           output == Tensor(<<softmax_output.shape[1], softmax_output.shape[3],
                              softmax_output.shape[2], N>>, softmax_output.dtype)
           view == ViewShape(output.shape, <<softmax_output.shape[1], -1, d_model>>)
           r0 == [EmptyResult EXCEPT
                    !.trace = <<"alloc:score_output", "launch:qkv_gemm_4d_kernel",
                                "alloc:softmax_output">>
                              \o (IF small THEN <<"launch:softmax_kernel">>
                                  ELSE <<"torch.softmax">>)
                              \o <<"alloc:output", "launch:qkv_gemm_4d_kernel">>,
                    !.path = IF small THEN "small" ELSE "large",
                    !.launch = IF small
                               THEN SoftmaxLaunch("softmax_kernel", n_rows, n_cols,
                                                  PlainSoftmaxConfig(n_cols), input_mask)
                               ELSE NoLaunch,
                    !.softmax_input = score_output,
                    !.softmax_output = softmax_output,
                    !.handed = softmax_output]
       IN IF view = <<>> THEN Raise(r0, "RuntimeError", "view")
          ELSE [r0 EXCEPT !.status = "ok",
                          !.output = Applied([output EXCEPT !.shape = view],
                                             "qkv_gemm_4d_kernel")]

(* ---------------- self_attention_compute_using_triton ----------------- *)
PackedPreconditions_NoAlibiCheck(qkv, alibi) ==
    IF ~qkv.contiguous THEN "qkv.is_contiguous()" ELSE ""

PackedPreconditions(qkv, alibi) ==
    IF ~qkv.contiguous THEN "qkv.is_contiguous()"
    ELSE IF alibi.present
         THEN "current triton self-attention does not support alibi"
    ELSE ""

\* q, k, v: the three slices of the last axis, each viewed as
\* (batches, -1, num_of_heads, head_size)
PackedUnpack(qkv, head_size) ==
    LET batches == qkv.shape[1]
        last == qkv.shape[3]
        d_model == last \div 3
        num_of_heads == d_model \div head_size
        target == <<batches, -1, num_of_heads, head_size>>
        slice(w) == <<qkv.shape[1], qkv.shape[2], w>>
    IN [q |-> Tensor(ViewShape(slice(d_model), target), qkv.dtype),
        k |-> Tensor(ViewShape(slice(d_model), target), qkv.dtype),
        v |-> Tensor(ViewShape(slice(last - 2 * d_model), target), qkv.dtype)]

PackedAttention(qkv, input_mask, alibi, head_size) ==
    LET pre == PackedPreconditions(qkv, alibi)
    IN IF pre # "" THEN Raise(EmptyResult, "AssertionError", pre)
       ELSE
       LET u == PackedUnpack(qkv, head_size)
       IN IF u.q.shape = <<>> \/ u.k.shape = <<>> \/ u.v.shape = <<>>
          THEN Raise(Event(EmptyResult, "unpack"), "RuntimeError", "view")
          ELSE LET r == PlainAttention(u.q, u.k, u.v, input_mask)
               IN [r EXCEPT !.trace = <<"unpack", "call:self_attention_forward_without_fusion">> \o @]

(* --------------------- compute_attention_for_bloom -------------------- *)
BloomPreconditions(q, k, v) ==
    IF Len(q.shape) # Len(k.shape) THEN "the dimensions must be matched"
    ELSE IF Len(q.shape) # Len(v.shape) THEN "the dimensions must be matched"
    ELSE IF Len(q.shape) # 4
         THEN "the length of input q must be 4, which is (batch, seq_len, num_heads, head_dim)"
    ELSE ""

\* the assertions on alibi, made once score_output is allocated
BloomAlibiPreconditions(score_shape, alibi) ==
    IF score_shape[1] # alibi.shape[1]
    THEN "the length of alibi and score output should be matched"
    ELSE IF SubSeq(score_shape, 1, Len(score_shape) - 1)
            # SubSeq(alibi.shape, 1, Len(alibi.shape) - 1)
         THEN "the shape of alibi and score outout also should be the same"
    ELSE ""

\* alibi.expand(batches, H, M, N): only a size-1 axis may be broadcast
AlibiExpands(score_shape, alibi) ==
    alibi.shape[4] = 1 \/ alibi.shape[4] = score_shape[4]

\* the first GEMM indexes k with q's batch, head and reduction extents and
\* k's own strides: a smaller k is read past its end
Gemm1OutOfBounds(q, k) ==
    k.shape[1] < q.shape[1] \/ k.shape[2] < q.shape[2] \/ k.shape[3] < q.shape[4]

\* the second GEMM indexes v with the softmax output's batch, head and key
\* extents and v's own strides
Gemm2OutOfBounds(softmax_shape, v) ==
    v.shape[1] < softmax_shape[1] \/ v.shape[2] < softmax_shape[2]
        \/ v.shape[3] < softmax_shape[4]

BloomSoftmaxConfig_StrictThreshold(n_cols) ==
    LET block_size == Max(next_power_of_2(n_cols), 2)
        num_warps == IF block_size > WARP_THRESHOLD_HI THEN 16
                     ELSE IF block_size > WARP_THRESHOLD_LO THEN 8
                     ELSE 4
    IN [BLOCK_SIZE |-> block_size, num_warps |-> num_warps]

\* block_size / num_warps at the biased-attention launch site
BloomSoftmaxConfig(n_cols) ==
    LET block_size == Max(next_power_of_2(n_cols), 2)
        num_warps == IF block_size >= WARP_THRESHOLD_HI THEN 16
                     ELSE IF block_size >= WARP_THRESHOLD_LO THEN 8
                     ELSE 4
    IN [BLOCK_SIZE |-> block_size, num_warps |-> num_warps]

\* a drop probability is the rational drop_out[1] / drop_out[2], drop_out[2] > 0
DropoutApplies_Inclusive(drop_out) ==
    drop_out[1] >= 0 /\ drop_out[1] < drop_out[2]

\* drop_out > 0 and drop_out < 1
DropoutApplies(drop_out) ==
    drop_out[1] > 0 /\ drop_out[1] < drop_out[2]

\* d_model = q.shape[1] * q.shape[3] (0-based axes: heads * head_dim)
BloomDModel_SeqAxis(q) == q.shape[2] * q.shape[3]

BloomDModel(q) == q.shape[2] * q.shape[4]

\* score_output after the first GEMM and "+= beta * alibi"
BloomScore(q, k) ==
    Applied(Applied(Tensor(<<q.shape[1], q.shape[2], q.shape[3],
                             k.shape[Len(k.shape)]>>, q.dtype),
                    "qkv_gemm_4d_kernel"), "add:beta*alibi")

\* float16 scores are cast to float32 after the bias is added
BloomPromote(score_output, input_dtype) ==
    IF input_dtype = "float16"
    THEN Applied(To(score_output, "float32"), "to:float32")
    ELSE score_output

\* torch.masked_fill(score_output, attention_mask, finfo(dtype).min)
BloomMaskedFill(score_output, attention_mask) ==
    IF attention_mask.present
    THEN Applied([score_output EXCEPT
                     !.excluded = @ \cup attention_mask.excluded], "masked_fill")
    ELSE score_output

\* small path: cast back to input_dtype, then the fused kernel, no mask pointer
BloomSmallInput(score_output, input_dtype) == To(score_output, input_dtype)

\* large path: F.softmax(score_output, dim=-1, dtype=torch.float32)
BloomLargeInput(score_output, input_dtype) == To(score_output, "float32")

BloomAttention(q, k, v, alibi, attention_mask, drop_out, head_mask, fault1, fault2) ==
    LET pre == BloomPreconditions(q, k, v)
    IN IF pre # "" THEN Raise(EmptyResult, "AssertionError", pre)
       ELSE
       LET d_model == BloomDModel(q)
           score0 == BloomScore(q, k)
           r1 == Event(EmptyResult, "alloc:score_output")
           apre == BloomAlibiPreconditions(score0.shape, alibi)
       IN IF apre # "" THEN Raise(r1, "AssertionError", apre)
          ELSE IF ~AlibiExpands(score0.shape, alibi)
          THEN Raise(r1, "RuntimeError", "expand")
          ELSE IF fault1
          THEN Raise(Event(r1, "launch:qkv_gemm_4d_kernel"), "KernelFault",
                     "out-of-bounds read of k")
          ELSE
          LET input_dtype == score0.dtype
              promoted == BloomPromote(score0, input_dtype)
              masked == BloomMaskedFill(promoted, attention_mask)
              softmax_leading_size == q.shape[1] * q.shape[2] * q.shape[3]
              small == softmax_leading_size <= ROW_THRESHOLD
              sm_in == IF small THEN BloomSmallInput(masked, input_dtype)
                       ELSE BloomLargeInput(masked, input_dtype)
              flat == Flatten2D(sm_in)
              n_rows == flat.shape[1]
              n_cols == flat.shape[2]
              softmax_output ==
                  IF small
                  THEN SoftmaxKernel(Tensor(sm_in.shape, sm_in.dtype), flat, NoMask)
                  ELSE To(TorchSoftmax(masked, "float32"), input_dtype)
              dropped == IF DropoutApplies(drop_out)
                         THEN To(Applied(softmax_output, "F.dropout"), input_dtype)
                         ELSE softmax_output
              headed == IF head_mask
                        THEN To(Applied(dropped, "mul:head_mask"), input_dtype)
                        ELSE dropped
              N == v.shape[4]
              output == Tensor(<<headed.shape[1], headed.shape[3],
                                 headed.shape[2], N>>, headed.dtype)
              view == ViewShape(output.shape, <<headed.shape[1], -1, d_model>>)
              r2 == [r1 EXCEPT
                       !.trace = @ \o <<"launch:qkv_gemm_4d_kernel">>
                                 \o (IF small
                                     THEN <<"alloc:softmax_output",
                                            "launch:softmax_kernel">>
                                     ELSE <<"F.softmax">>)
                                 \o (IF DropoutApplies(drop_out)
                                     THEN <<"F.dropout">> ELSE <<>>)
                                 \o <<"alloc:output", "launch:qkv_gemm_4d_kernel">>,
                       !.path = IF small THEN "small" ELSE "large",
                       !.launch = IF small
                                  THEN SoftmaxLaunch("softmax_kernel", n_rows, n_cols,
                                                     BloomSoftmaxConfig(n_cols), NoMask)
                                  ELSE NoLaunch,
                       !.promoted = promoted,
                       !.masked = masked,
                       !.softmax_input = sm_in,
                       !.softmax_output = softmax_output,
                       !.dropout = DropoutApplies(drop_out),
                       !.handed = dropped]
          IN IF fault2
             THEN Raise(r2, "KernelFault", "out-of-bounds read of v")
             ELSE IF view = <<>> THEN Raise(r2, "RuntimeError", "view")
             ELSE [r2 EXCEPT !.status = "ok",
                             !.output = Applied([output EXCEPT !.shape = view],
                                                "qkv_gemm_4d_kernel")]

(* ------------------------------ softmax ------------------------------- *)
\* names bound in the module namespace: the imports and the four functions
ModuleNames ==
    {"qkv_gemm_4d_kernel", "qkv_gemm_4d_kernel_alibi", "softmax_kernel",
     "self_attention_forward_without_fusion", "compute_attention_for_bloom",
     "self_attention_compute_using_triton", "softmax"}

\* block_size / num_warps at the standalone launch site
StandaloneSoftmaxConfig(num_cols) ==
    LET block_size == Max(next_power_of_2(num_cols), 2)
        num_warps == IF block_size >= WARP_THRESHOLD_HI THEN 16
                     ELSE IF block_size >= WARP_THRESHOLD_LO THEN 8
                     ELSE 4
    IN [BLOCK_SIZE |-> block_size, num_warps |-> num_warps]

\* the local BLOCK_M computed in the large case
LocalBlockM(block_size) ==
    IF block_size >= WARP_THRESHOLD_HI THEN 4
    ELSE IF block_size >= WARP_THRESHOLD_LO THEN 8
    ELSE 32

\* the BLOCK_M keyword written at the softmax_kernel_2 launch site
LaunchBlockM(local_block_m) == 32

\* "assert input[-1] == mask[-1]": the truth value of an elementwise
\* comparison of the two last slices along axis 0
MaskAssert(input, mask, last_eq) ==
    IF Prod(Tail(input.shape)) > 1
    THEN "Boolean value of Tensor with more than one value is ambiguous"
    ELSE IF ~last_eq
         THEN "the last dimentions should be the same for input and mask"
    ELSE ""

DimIsLast(input, dim) == dim = -1 \/ dim = Len(input.shape) - 1

StandaloneSoftmax(input, mask, dim, last_eq) ==
    LET mpre == IF mask.present THEN MaskAssert(input, mask, last_eq) ELSE ""
    IN IF mpre = "Boolean value of Tensor with more than one value is ambiguous"
       THEN Raise(EmptyResult, "RuntimeError", mpre)
       ELSE IF mpre # "" THEN Raise(EmptyResult, "AssertionError", mpre)
       ELSE IF ~DimIsLast(input, dim)
       THEN Raise(EmptyResult, "AssertionError",
                  "currently softmax layer only support last dimention")
       ELSE
       LET hidden_dim == input.shape[Len(input.shape)]
           output == Tensor(input.shape, input.dtype)
           flat == Flatten2D(input)
           r1 == Event(EmptyResult, "alloc:output")
       IN IF mask.present
             /\ flat.shape[1] # ViewShape(mask.shape, <<-1, hidden_dim>>)[1]
          THEN Raise(r1, "AssertionError",
                     "the fist dimention of mask and input should be the same")
          ELSE
          LET num_rows == flat.shape[1]
              num_cols == flat.shape[2]
              cfg == StandaloneSoftmaxConfig(num_cols)
          IN IF num_rows <= ROW_THRESHOLD
             THEN [r1 EXCEPT
                      !.status = "ok",
                      !.path = "small",
                      !.trace = Append(@, "launch:softmax_kernel"),
                      !.launch = SoftmaxLaunch("softmax_kernel", num_rows,
                                               num_cols, cfg, mask),
                      !.softmax_input = flat,
                      !.softmax_output = SoftmaxKernel(output, flat, mask),
                      !.output = SoftmaxKernel(output, flat, mask)]
             ELSE
             \* site: the launch expression as written (kernel name, keywords,
             \* grid); the name is looked up first, and the launch is made only
             \* if the lookup succeeds
             LET BLOCK_M == LocalBlockM(cfg.BLOCK_SIZE)
                 passed == LaunchBlockM(BLOCK_M)
                 found == "softmax_kernel_2" \in ModuleNames
                 site == [kernel |-> "softmax_kernel_2", resolved |-> found,
                          n_rows |-> num_rows, n_cols |-> num_cols,
                          BLOCK_SIZE |-> cfg.BLOCK_SIZE, num_warps |-> 0,
                          BLOCK_M |-> passed, grid |-> cdiv(num_rows, passed),
                          mask |-> mask.present]
                 r2 == [r1 EXCEPT !.path = "large", !.launch = site,
                                  !.softmax_input = flat]
             IN IF ~found
                THEN Raise(r2, "NameError", "name 'softmax_kernel_2' is not defined")
                ELSE [r2 EXCEPT
                         !.status = "ok",
                         !.trace = Append(@, "launch:softmax_kernel_2"),
                         !.softmax_output = SoftmaxKernel(output, flat, mask),
                         !.output = SoftmaxKernel(output, flat, mask)]

(* ------------------------------ inputs -------------------------------- *)
\* row widths around the 2048 / 4096 buckets and their power-of-two padding
Widths == {1, 3, 1024, 1025, 2047, 2048, 2049, 4096, 4097}

\* row counts around the dispatch threshold
RowCounts == {1, 2, ROW_THRESHOLD, ROW_THRESHOLD + 1}

Dtypes == {"float16", "bfloat16", "float32"}

\* drop probabilities -1 (default), -1/2, 0, 1/2, 1, 3/2
DropOuts == {<<-1, 1>>, <<-1, 2>>, <<0, 1>>, <<1, 2>>, <<1, 1>>, <<3, 2>>}

Masks(shape) ==
    {NoMask} \cup {Mask(shape, S) : S \in SUBSET (1..Min(MaxMaskPos, Prod(shape)))}

DropLast(s) == SubSeq(s, 1, Len(s) - 1)

NoArgs ==
    [q |-> NoTensor, k |-> NoTensor, v |-> NoTensor, input_mask |-> NoMask,
     alibi |-> [present |-> FALSE, shape |-> <<>>],
     attention_mask |-> NoMask, drop_out |-> <<-1, 1>>, head_mask |-> FALSE,
     qkv |-> [shape |-> <<>>, dtype |-> "none", contiguous |-> TRUE],
     head_size |-> 0, input |-> NoTensor, mask |-> NoMask, dim |-> -1,
     last_eq |-> TRUE]

\* plain attention: q is (batch, seq, heads, head_dim), or of rank 3 or 5
\* (wide rows with few batches, or short rows with batches around the threshold)
PlainQShapes ==
    {<<b, m, h, d>> : b \in 1..MaxBatch, m \in Widths,
                      h \in 1..MaxHeads, d \in 1..MaxHeadDim}
    \cup {<<b, m, h, d>> : b \in RowCounts, m \in {1, 3},
                           h \in 1..MaxHeads, d \in 1..MaxHeadDim}
    \cup {<<1, 4, 2, 8>>, <<1, 1, 1>>, <<1, 1, 1, 1, 1>>}

PlainKShapes(s) ==
    {s, [s EXCEPT ![Len(s)] = @ + 1], [s EXCEPT ![2] = @ + 1], DropLast(s)}
    \cup (IF s[Len(s)] > 1 THEN {[s EXCEPT ![Len(s)] = @ - 1]} ELSE {})

PlainVShapes(s) == {s, [s EXCEPT ![Len(s)] = @ + 1], DropLast(s)}

\* packed attention: qkv is (batch, seq, 3 * heads * head_size)
PackedShapes ==
    ((1..MaxBatch) \X Widths \X (1..MaxHeads) \X (1..MaxHeadDim))
    \cup (RowCounts \X {1, 3} \X (1..MaxHeads) \X (1..MaxHeadDim))

\* standalone softmax: input of rank 1, 2 or 3, mask absent or of input's shape
SoftmaxShapes ==
    {<<c>> : c \in Widths}
    \cup {<<r, c>> : r \in RowCounts, c \in Widths}
    \cup {<<b, r, c>> : b \in 1..MaxBatch, r \in RowCounts, c \in {1, 3}}
    \cup {<<b, r, c>> : b \in 1..MaxBatch, r \in {1, 2}, c \in Widths}

\* biased attention: q (batch, heads, M, head_dim), k (batch, heads, head_dim, N),
\* v (batch, heads, N, head_dim)
BloomQShapes ==
    {<<b, h, m, d>> : b \in 1..MaxBatch, h \in 1..MaxHeads, m \in RowCounts,
                      d \in 1..MaxHeadDim}

BloomArgs(qs, ks, vs, as, dt, am, p, hm) ==
    [NoArgs EXCEPT !.q = Tensor(qs, dt), !.k = Tensor(ks, dt),
                   !.v = Tensor(vs, dt),
                   !.alibi = [present |-> TRUE, shape |-> as],
                   !.attention_mask = am, !.drop_out = p, !.head_mask = hm]

BloomRankShapes == {<<1, 1, 1>>, <<1, 1, 1, 1>>}

BloomAlibiShapes(qs, n) ==
    {<<qs[1], qs[2], qs[3], n>>, <<qs[1], qs[2], qs[3], 1>>,
     <<qs[1] + 1, qs[2], qs[3], n>>, <<qs[1], qs[2] + 1, qs[3], n>>,
     <<qs[1], qs[2], qs[3], n + 1>>}

(* --------------------------- state machine ---------------------------- *)
Init ==
    /\ fn = "idle"
    /\ args = NoArgs
    /\ result = EmptyResult

CallPlain ==
    /\ fn = "idle"
    /\ \E qs \in PlainQShapes, dt \in {"float16", "float32"} :
         \E ks \in PlainKShapes(qs), vs \in PlainVShapes(qs), m \in Masks(qs) :
           /\ fn' = "plain"
           /\ args' = [NoArgs EXCEPT !.q = Tensor(qs, dt), !.k = Tensor(ks, dt),
                                     !.v = Tensor(vs, dt), !.input_mask = m]
           /\ result' = PlainAttention(Tensor(qs, dt), Tensor(ks, dt),
                                       Tensor(vs, dt), m)

CallPacked ==
    /\ fn = "idle"
    /\ \E x \in PackedShapes, contiguous \in BOOLEAN, alibi \in BOOLEAN,
          m \in Masks(<<MaxMaskPos>>) :
         LET qkv == [shape |-> <<x[1], x[2], 3 * x[3] * x[4]>>,
                     dtype |-> "float16", contiguous |-> contiguous]
             al == [present |-> alibi, shape |-> <<>>]
         IN /\ fn' = "packed"
            /\ args' = [NoArgs EXCEPT !.qkv = qkv, !.head_size = x[4],
                                      !.alibi = al, !.input_mask = m]
            /\ result' = PackedAttention(qkv, m, al, x[4])

\* one biased-attention call; a GEMM that reads an operand past its end
\* either faults or goes on with whatever it read
BloomStep(a) ==
    LET ranked == BloomPreconditions(a.q, a.k, a.v) = ""
        oob1 == ranked /\ Gemm1OutOfBounds(a.q, a.k)
        oob2 == ranked /\ Gemm2OutOfBounds(BloomScore(a.q, a.k).shape, a.v)
    IN \E fault1 \in (IF oob1 THEN BOOLEAN ELSE {FALSE}),
          fault2 \in (IF oob2 THEN BOOLEAN ELSE {FALSE}) :
         /\ fn' = "bloom"
         /\ args' = a
         /\ result' = BloomAttention(a.q, a.k, a.v, a.alibi, a.attention_mask,
                                     a.drop_out, a.head_mask, fault1, fault2)

\* operand shapes vary: batch, heads and feature axes of k and v are free
CallBloomShapes ==
    /\ fn = "idle"
    /\ \E qs \in BloomQShapes, n \in {1, 3} :
         \E bk \in 1..MaxBatch, hk \in 1..MaxHeads, bv \in 1..MaxBatch,
            hv \in 1..MaxHeads, fv \in 1..MaxHeadDim :
           BloomStep(BloomArgs(qs, <<bk, hk, qs[4], n>>, <<bv, hv, n, fv>>,
                               <<qs[1], qs[2], qs[3], n>>, "float16", NoMask,
                               <<-1, 1>>, FALSE))

\* operand ranks vary
CallBloomRanks ==
    /\ fn = "idle"
    /\ \E qs \in BloomRankShapes, ks \in BloomRankShapes, vs \in BloomRankShapes :
         BloomStep(BloomArgs(qs, ks, vs, <<1, 1, 1, 1>>, "float16", NoMask,
                             <<-1, 1>>, FALSE))

\* key length (row width) and the bias shape vary
CallBloomWidths ==
    /\ fn = "idle"
    /\ \E qs \in {s \in BloomQShapes : s[3] = 1}, n \in Widths :
         \E as \in BloomAlibiShapes(qs, n) :
           BloomStep(BloomArgs(qs, <<qs[1], qs[2], qs[4], n>>,
                               <<qs[1], qs[2], n, qs[4]>>, as, "float16",
                               NoMask, <<-1, 1>>, FALSE))

\* dtype, exclusion mask, drop probability and head mask vary
CallBloomOptions ==
    /\ fn = "idle"
    /\ \E qs \in BloomQShapes, dt \in Dtypes, p \in DropOuts, hm \in BOOLEAN :
         \E am \in {NoMask, Mask(<<qs[1], qs[2], qs[3], 3>>, {1})} :
           BloomStep(BloomArgs(qs, <<qs[1], qs[2], qs[4], 3>>,
                               <<qs[1], qs[2], 3, qs[4]>>,
                               <<qs[1], qs[2], qs[3], 3>>, dt, am, p, hm))

CallSoftmax ==
    /\ fn = "idle"
    /\ \E s \in SoftmaxShapes, dim \in -1..2, last_eq \in BOOLEAN :
         \E m \in {NoMask, Mask(s, {}), Mask(s, {1})} :
           /\ fn' = "softmax"
           /\ args' = [NoArgs EXCEPT !.input = Tensor(s, "float32"), !.mask = m,
                                     !.dim = dim, !.last_eq = last_eq]
           /\ result' = StandaloneSoftmax(Tensor(s, "float32"), m, dim, last_eq)

Next ==
    \/ CallPlain
    \/ CallPacked
    \/ CallBloomShapes
    \/ CallBloomRanks
    \/ CallBloomWidths
    \/ CallBloomOptions
    \/ CallSoftmax

Spec == Init /\ [][Next]_vars

(* ------------------------------ claims -------------------------------- *)
Happened(e) == \E i \in 1..Len(result.trace) : result.trace[i] = e

RECURSIVE IsPow2(_)
IsPow2(x) == x = 1 \/ (x > 1 /\ x % 2 = 0 /\ IsPow2(x \div 2))

\* C1: plain attention raises a precondition error, with nothing allocated
\* and nothing launched, whenever q is not of rank 4 or k's or v's shape
\* differs from q's; a call that passes these checks raises no precondition
\* error.
C1_PlainPreconditions ==
    fn = "plain" =>
      LET bad == \/ Len(args.q.shape) # 4
                 \/ args.k.shape # args.q.shape
                 \/ args.v.shape # args.q.shape
      IN /\ bad => result.status = "AssertionError" /\ result.trace = <<>>
         /\ ~bad => result.status # "AssertionError"

C1_Witness ==
    /\ fn = "plain"
    /\ args.q.shape = <<1, 4, 2, 8>>
    /\ args.k.shape = <<1, 4, 2, 7>>
    /\ args.v.shape = args.q.shape
    /\ result.status = "AssertionError"
    /\ result.trace = <<>>

\* C2: biased attention raises a precondition error before the first GEMM
\* whenever q, k and v disagree on batch count or on heads count.
C2_BloomRejectsBatchHeadsMismatch ==
    (/\ fn = "bloom"
     /\ Len(args.q.shape) = 4 /\ Len(args.k.shape) = 4 /\ Len(args.v.shape) = 4
     /\ \/ args.k.shape[1] # args.q.shape[1] \/ args.v.shape[1] # args.q.shape[1]
        \/ args.k.shape[2] # args.q.shape[2] \/ args.v.shape[2] # args.q.shape[2])
    => /\ result.status = "AssertionError"
       /\ ~Happened("launch:qkv_gemm_4d_kernel")

\* C3: in plain attention the small-row-count and the large-row-count softmax
\* paths give the same result on the same scores and mask: the same excluded
\* positions, the same 4-D shape, the same dtype.
C3_PlainSoftmaxPathsAgree ==
    (fn = "plain" /\ result.status = "ok") =>
      LET score4 == PlainScore(args.q, args.k)
          small == PlainSmallPath(Tensor(score4.shape, score4.dtype),
                                  Flatten2D(score4), args.input_mask)
          large == PlainLargePath(Flatten2D(score4), score4.shape,
                                  args.input_mask)
      IN /\ result.softmax_output \in {small, large}
         /\ small.excluded = large.excluded
         /\ small.shape = large.shape
         /\ Len(small.shape) = 4
         /\ small.dtype = large.dtype

C5_StandaloneSoftmaxCompletes ==
    fn = "softmax" =>
      /\ DimIsLast(args.input, args.dim) =>
           /\ result.status = "ok"
           /\ result.output.shape = args.input.shape
      /\ ~DimIsLast(args.input, args.dim) => result.status = "AssertionError"

C7_PackedRejectsAlibi ==
    fn = "packed" =>
      LET bad == args.alibi.present \/ ~args.qkv.contiguous
          view == Tensor(<<args.qkv.shape[1], args.qkv.shape[2],
                           (args.qkv.shape[3] \div 3) \div args.head_size,
                           args.head_size>>, args.qkv.dtype)
          plain == PlainAttention(view, view, view, args.input_mask)
      IN /\ bad => result.status = "AssertionError" /\ result.trace = <<>>
         /\ ~bad =>
              /\ Len(result.trace) >= 2
              /\ result.trace[1] = "unpack"
              /\ result.trace[2] = "call:self_attention_forward_without_fusion"
              /\ result.status = plain.status
              /\ result.output = plain.output
              /\ SubSeq(result.trace, 3, Len(result.trace)) = plain.trace

C7_Witness ==
    /\ fn = "packed"
    /\ args.alibi.present
    /\ args.qkv.contiguous
    /\ result.status = "AssertionError"
    /\ result.msg = "current triton self-attention does not support alibi"
    /\ result.trace = <<>>

\* C8: in biased attention with float16 input the scores are float32 after
\* the bias is added, through the mask step and through the softmax stage on
\* both dispatch paths, and the output has the input dtype.
C8_BloomHalfStaysPromoted ==
    (fn = "bloom" /\ args.q.dtype = "float16"
     /\ result.softmax_input # NoTensor) =>
      /\ result.promoted.dtype = "float32"
      /\ result.masked.dtype = "float32"
      /\ result.softmax_input.dtype = "float32"
      /\ result.softmax_output.dtype = "float16"
      /\ result.status = "ok" => result.output.dtype = "float16"

\* C9: in the large case of standalone softmax the BLOCK_M given to the
\* launch is 32, 8 or 4 by row width (thresholds 2048 and 4096), and the grid
\* has ceil(n_rows / BLOCK_M) bands.
C9_LargeCaseBlockM ==
    (fn = "softmax" /\ result.path = "large") =>
      LET w == result.launch.n_cols
          expected == IF w >= WARP_THRESHOLD_HI THEN 4
                      ELSE IF w >= WARP_THRESHOLD_LO THEN 8
                      ELSE 32
      IN /\ result.launch.BLOCK_M = expected
         /\ result.launch.grid = cdiv(result.launch.n_rows, expected)

\* C10 (as stated): every softmax_kernel launch uses a power-of-two
\* BLOCK_SIZE >= 2 and >= n_cols, and num_warps 4 / 8 / 16 for n_cols below
\* 2048 / below 4096 / from 4096; the three sites agree.
C10_LaunchConfigByNCols ==
    result.launch.kernel = "softmax_kernel" =>
      LET n == result.launch.n_cols
          bs == result.launch.BLOCK_SIZE
      IN /\ IsPow2(bs) /\ bs >= 2 /\ bs >= n
         /\ result.launch.num_warps =
              (IF n >= WARP_THRESHOLD_HI THEN 16
               ELSE IF n >= WARP_THRESHOLD_LO THEN 8 ELSE 4)
         /\ PlainSoftmaxConfig(n) = BloomSoftmaxConfig(n)
         /\ BloomSoftmaxConfig(n) = StandaloneSoftmaxConfig(n)

\* C10 (amended): every softmax_kernel launch uses a power-of-two
\* BLOCK_SIZE >= 2 and >= n_cols, and num_warps bucketed by that padded
\* width: 4 for BLOCK_SIZE below 2048, 8 below 4096, 16 from 4096; the three
\* sites choose the same pair for the same n_cols.
C10_LaunchConfigByBlockSize ==
    result.launch.kernel = "softmax_kernel" =>
      LET n == result.launch.n_cols
          bs == result.launch.BLOCK_SIZE
          cfg == [BLOCK_SIZE |-> bs, num_warps |-> result.launch.num_warps]
      IN /\ n >= 1
         /\ IsPow2(bs) /\ bs >= 2 /\ bs >= n
         /\ result.launch.num_warps =
              (IF bs >= WARP_THRESHOLD_HI THEN 16
               ELSE IF bs >= WARP_THRESHOLD_LO THEN 8 ELSE 4)
         /\ cfg = PlainSoftmaxConfig(n)
         /\ cfg = BloomSoftmaxConfig(n)
         /\ cfg = StandaloneSoftmaxConfig(n)

C10_Witness ==
    /\ fn = "bloom"
    /\ result.status = "ok"
    /\ result.launch.kernel = "softmax_kernel"
    /\ result.launch.n_cols = 1025
    /\ result.launch.BLOCK_SIZE = 2048
    /\ result.launch.num_warps = 8

====
